---- MODULE Spec2Model ----
(***************************************************************************)
(* Phrase-matching subtitle search engine (MongoDBSubtitleSearch).         *)
(*                                                                         *)
(* Text is a sequence of one-character strings.  A score is a fraction     *)
(* <<numerator, denominator>> with a positive denominator; the Python      *)
(* floats of the code are modelled by exact rationals.                     *)
(***************************************************************************)
EXTENDS Integers, Sequences, FiniteSets, TLC

VARIABLES
    corpus,       \* the stored collection, in _id order (externally owned)
    uriSet,       \* settings.MONGO_URI is set
    atlasHost,    \* the host of MONGO_URI contains 'mongodb.net'
    client,       \* self.client: "None" or the strategy that created it
    db,           \* self.db is set
    collection,   \* self.collection is set
    connected,    \* self._connected
    established,  \* number of successful connection tests so far
    tried,        \* strategies run by the last connection attempt, in order
    ret,          \* what the last operation gave back to its caller
    probe,        \* the first completed search: its arguments and result
    route,        \* a request of an identify route: its position and locals
    fx, fy,       \* inputs of a pure function under check
    fout          \* its output

vars == <<corpus, uriSet, atlasHost, client, db, collection, connected,
          established, tried, ret, probe, route, fx, fy, fout>>

engineVars == <<corpus, uriSet, atlasHost, client, db, collection, connected,
                established, tried, ret, probe, route>>

-----------------------------------------------------------------------------
(* Bounds *)

MaxLen == 3
MaxQLen == 2
MaxDocs == 2
MaxLimit == 2
MaxQueries == 2
MaxTextLen == 5
MaxPhraseLen == 2
MaxPhrases == 3
MaxCount == 2
MaxRoutePhrases == 2
MaxLines == 3
MaxCutDocs == 3
MaxRawQLen == 3
MaxRawLen == 3
MaxTitleDocs == 2
MaxWordsLen == 3

-----------------------------------------------------------------------------
(* Characters: str.lower(), the regex classes \w and \s *)

LowerCase == <<"a","b","c","d","e","f","g","h","i","j","k","l","m",
               "n","o","p","q","r","s","t","u","v","w","x","y","z">>
UpperCase == <<"A","B","C","D","E","F","G","H","I","J","K","L","M",
               "N","O","P","Q","R","S","T","U","V","W","X","Y","Z">>
Digits == {"0","1","2","3","4","5","6","7","8","9"}

Range(s) == {s[i] : i \in DOMAIN s}

WhitespaceChars == {" ", "\t", "\n"}
WordChars == Range(LowerCase) \cup Range(UpperCase) \cup Digits \cup {"_"}
LowerOf == [c \in Range(UpperCase) |->
               LowerCase[CHOOSE i \in DOMAIN UpperCase : UpperCase[i] = c]]

IsSpace(c) == c \in WhitespaceChars

IsWord(c) == c \in WordChars

Lower(c) == IF c \in DOMAIN LowerOf THEN LowerOf[c] ELSE c

LowerStr(s) == [i \in 1..Len(s) |-> Lower(s[i])]

-----------------------------------------------------------------------------
(* Text normalization of the corpus scan *)

\* re.sub(r'[^\w\s]', ' ', s)
SubPunct(s) ==
    [i \in 1..Len(s) |-> IF IsWord(s[i]) \/ IsSpace(s[i]) THEN s[i] ELSE " "]

\* re.sub(r'\s+', ' ', s): every maximal run of whitespace becomes one space
RECURSIVE CollapseWs(_)
CollapseWs(s) ==
    IF s = <<>> THEN <<>>
    ELSE IF IsSpace(Head(s))
         THEN IF Len(s) > 1 /\ IsSpace(s[2])
              THEN CollapseWs(Tail(s))
              ELSE <<" ">> \o CollapseWs(Tail(s))
         ELSE <<Head(s)>> \o CollapseWs(Tail(s))

RECURSIVE LStrip(_)
LStrip(s) == IF s # <<>> /\ IsSpace(Head(s)) THEN LStrip(Tail(s)) ELSE s

RECURSIVE RStrip(_)
RStrip(s) ==
    IF s # <<>> /\ IsSpace(s[Len(s)]) THEN RStrip(SubSeq(s, 1, Len(s) - 1)) ELSE s

\* str.strip()
Strip(s) == RStrip(LStrip(s))

\* the whitespace runs left as they are
NormalizeNoCollapse(s) == Strip(SubPunct(s))

\* the two re.sub calls and the strip applied to an already lowercased string
NormalizeLowered(s) == Strip(CollapseWs(SubPunct(s)))

\* lowercase, punctuation to space, collapse whitespace, trim
Normalize(s) == NormalizeLowered(LowerStr(s))

-----------------------------------------------------------------------------
(* Substring search and token split *)

OccursAt(q, t, p) ==
    /\ p + Len(q) <= Len(t)
    /\ \A i \in 1..Len(q) : t[p + i] = q[i]

\* the first occurrence of q in t at index p or later, -1 when there is none
RECURSIVE FindFrom(_, _, _)
FindFrom(q, t, p) ==
    IF p + Len(q) > Len(t) THEN -1
    ELSE IF OccursAt(q, t, p) THEN p
    ELSE FindFrom(q, t, p + 1)

\* str.find: the 0-based index of the first occurrence, -1 when there is none
Find(q, t) == FindFrom(q, t, 0)

\* q in t
IsSub(q, t) == Find(q, t) >= 0

\* str.split(): the maximal runs of non-whitespace characters
RECURSIVE SplitAcc(_, _)
SplitAcc(s, cur) ==
    IF s = <<>> THEN (IF cur = <<>> THEN <<>> ELSE <<cur>>)
    ELSE IF IsSpace(Head(s))
         THEN (IF cur = <<>> THEN <<>> ELSE <<cur>>) \o SplitAcc(Tail(s), <<>>)
         ELSE SplitAcc(Tail(s), Append(cur, Head(s)))

Split(s) == SplitAcc(s, <<>>)

Max(a, b) == IF a >= b THEN a ELSE b
Min(a, b) == IF a <= b THEN a ELSE b

-----------------------------------------------------------------------------
(* Scores as fractions *)

FracLess(a, b) == a[1] * b[2] < b[1] * a[2]
FracLeq(a, b) == a[1] * b[2] <= b[1] * a[2]
FracEq(a, b) == a[1] * b[2] = b[1] * a[2]
One == <<1, 1>>
Zero == <<0, 1>>

\* the containment branch scored without the base credit of 1.0
CalculateMatchScoreNoBase(query, text) ==
    LET position == Find(query, text)
    IN  IF text = <<>> THEN Zero
        ELSE IF position >= 0
             THEN <<Len(text) - position, Len(text)>>
             ELSE LET words == Split(query)
                      text_words == Range(Split(text))
                      matches == Cardinality({i \in DOMAIN words : words[i] \in text_words})
                  IN  IF words # <<>> THEN <<matches, Len(words)>> ELSE Zero

\* the word branch counting the query words found anywhere in the text
CalculateMatchScoreSubstringWords(query, text) ==
    LET position == Find(query, text)
    IN  IF text = <<>> THEN Zero
        ELSE IF position >= 0
             THEN <<2 * Len(text) - position, Len(text)>>
             ELSE LET words == Split(query)
                      matches == Cardinality({i \in DOMAIN words : IsSub(words[i], text)})
                  IN  IF words # <<>> THEN <<matches, Len(words)>> ELSE Zero

\* _calculate_match_score(query, text)
CalculateMatchScore(query, text) ==
    LET position == Find(query, text)
    IN  IF text = <<>> THEN Zero
        ELSE IF position >= 0
             THEN \* 1.0 + (1.0 - position / len(text))
                  <<2 * Len(text) - position, Len(text)>>
             ELSE LET words == Split(query)
                      text_words == Range(Split(text))
                      matches == Cardinality({i \in DOMAIN words : words[i] \in text_words})
                  IN  IF words # <<>> THEN <<matches, Len(words)>> ELSE Zero

-----------------------------------------------------------------------------
(* Bounded input sets *)

StrUpTo(A, n) == UNION {[1..k -> A] : k \in 0..n}

ScoreAlphabet == {"a", "b", " "}
NormAlphabet == {"a", "A", "b", " ", "\t", "!"}

\* the engine at rest, for the specifications that exercise a pure function
EngineIdle ==
    /\ corpus = <<>>
    /\ uriSet = FALSE
    /\ atlasHost = FALSE
    /\ client = "None"
    /\ db = FALSE
    /\ collection = FALSE
    /\ connected = FALSE
    /\ established = 0
    /\ tried = <<>>
    /\ ret = [op |-> "none"]
    /\ probe = [set |-> FALSE]
    /\ route = [pc |-> "idle"]

-----------------------------------------------------------------------------
(* SpecScore: _calculate_match_score on every non-empty query and text *)

InitScore ==
    /\ EngineIdle
    /\ fx \in StrUpTo(ScoreAlphabet, MaxQLen) \ {<<>>}
    /\ fy \in StrUpTo(ScoreAlphabet, MaxLen)
    /\ fout = [done |-> FALSE, val |-> Zero]

ScoreCall ==
    /\ ~fout.done
    /\ fout' = [done |-> TRUE, val |-> CalculateMatchScore(fx, fy)]
    /\ UNCHANGED <<fx, fy>>
    /\ UNCHANGED engineVars

NextScore == ScoreCall

SpecScore == InitScore /\ [][NextScore]_vars

\* the scores of all bounded (query, text) pairs without containment
NonContainmentScores ==
    {CalculateMatchScore(qt[1], qt[2]) :
        qt \in {p \in (StrUpTo(ScoreAlphabet, MaxQLen) \ {<<>>})
                        \X StrUpTo(ScoreAlphabet, MaxLen) : ~IsSub(p[1], p[2])}}

\* C4: a query contained in the text scores >= 1.0, a query not contained
\* scores <= 1.0, and every containment score is strictly greater than
\* every non-containment score.
C4_ContainmentDominates ==
    fout.done =>
        /\ IsSub(fx, fy) => FracLeq(One, fout.val)
        /\ ~IsSub(fx, fy) => FracLeq(fout.val, One)
        /\ IsSub(fx, fy) => \A s \in NonContainmentScores : FracLess(s, fout.val)

\* a containment match that does not start the line
C4_Witness ==
    /\ fout.done
    /\ IsSub(fx, fy)
    /\ Find(fx, fy) > 0
    /\ One \in NonContainmentScores

-----------------------------------------------------------------------------
(* SpecAnyQuery: _calculate_match_score on every query, the empty and the *)
(* whitespace-only ones included, and every text                          *)

InitAnyQuery ==
    /\ EngineIdle
    /\ fx \in StrUpTo(ScoreAlphabet, MaxWordsLen)
    /\ fy \in StrUpTo(ScoreAlphabet, MaxLen)
    /\ fout = [done |-> FALSE, val |-> Zero]

NextAnyQuery == ScoreCall

SpecAnyQuery == InitAnyQuery /\ [][NextAnyQuery]_vars

\* the query tokens that are whole whitespace-delimited tokens of the text
WholeTokens(query, text) ==
    Cardinality({i \in DOMAIN Split(query) :
                    \E j \in DOMAIN Split(text) : Split(text)[j] = Split(query)[i]})

\* 1.0 + (1.0 - p / len(text)), a bonus in (0,1], and an earlier occurrence
\* in a text of equal length scoring higher
ContainmentScored ==
    /\ FracEq(fout.val, <<2 * Len(fy) - Find(fx, fy), Len(fy)>>)
    /\ FracLess(One, fout.val)
    /\ FracLeq(fout.val, <<2, 1>>)
    /\ \A t \in [1..Len(fy) -> ScoreAlphabet] :
          (IsSub(fx, t) /\ Find(fx, t) < Find(fx, fy))
             => FracLess(fout.val, CalculateMatchScore(fx, t))

\* whole tokens matched / query tokens, a value in [0,1]
WordsScored ==
    /\ FracEq(fout.val, <<WholeTokens(fx, fy), Len(Split(fx))>>)
    /\ FracLeq(Zero, fout.val)
    /\ FracLeq(fout.val, One)

\* C16 as stated: containment scoring whenever the query is a substring of
\* the text, word scoring otherwise.
C16_Original ==
    fout.done => IF IsSub(fx, fy) THEN ContainmentScored ELSE WordsScored

\* C16: on a non-empty text, a query that is a substring of it scores
\* 1.0 + (1.0 - p / len(text)), p its first occurrence, so the bonus lies
\* in (0,1] and of two texts of equal length the earlier occurrence scores
\* higher; any other query scores whole tokens matched / query tokens, in
\* [0,1], and 0 when it has no tokens; on the empty text the score is 0.
C16_ScoreFormula ==
    fout.done =>
        IF fy = <<>> THEN fout.val = Zero
        ELSE IF IsSub(fx, fy) THEN ContainmentScored
        ELSE IF Split(fx) = <<>> THEN fout.val = Zero
        ELSE WordsScored

\* one of two query tokens is a whole token of a text not holding the query
C16_Witness ==
    /\ fout.done
    /\ ~IsSub(fx, fy)
    /\ Len(Split(fx)) = 2
    /\ WholeTokens(fx, fy) = 1
    /\ fout.val = <<1, 2>>

\* C17: a query without tokens, the empty string or whitespace only,
\* scores 0 against every text.
C17_Original ==
    (fout.done /\ Split(fx) = <<>>) => FracEq(fout.val, Zero)

-----------------------------------------------------------------------------
(* SpecNorm: the scan's normalization on an input and on a variant of it *)

IsPunct(c) == ~IsWord(c) /\ ~IsSpace(c)

\* x with character c inserted after its first i characters
Insert(x, i, c) == SubSeq(x, 1, i) \o <<c>> \o SubSeq(x, i + 1, Len(x))

\* y differs from x only in letter case
CaseVariants(x) ==
    {y \in [1..Len(x) -> NormAlphabet] : \A i \in 1..Len(x) : Lower(y[i]) = Lower(x[i])}

\* position i of x touches whitespace already there, or an end of x
AtWhitespace(x, i) ==
    IF i = 0 \/ i = Len(x) THEN TRUE ELSE IsSpace(x[i]) \/ IsSpace(x[i + 1])

\* position i of x lies between two word characters
InsideWord(x, i) ==
    IF i = 0 \/ i = Len(x) THEN FALSE ELSE IsWord(x[i]) /\ IsWord(x[i + 1])

NormOut(kind, x, y, inside) ==
    [done |-> TRUE, kind |-> kind, inside |-> inside,
     nx |-> Normalize(x), ny |-> Normalize(y), nnx |-> Normalize(Normalize(x))]

InitNorm ==
    /\ EngineIdle
    /\ fx \in StrUpTo(NormAlphabet, MaxLen)
    /\ fy = fx
    /\ fout = [done |-> FALSE]

\* normalize x and a variant that differs in letter case only
NormCase ==
    /\ ~fout.done
    /\ \E y \in CaseVariants(fx) :
          /\ fy' = y
          /\ fout' = NormOut("case", fx, y, FALSE)
    /\ UNCHANGED fx
    /\ UNCHANGED engineVars

\* normalize x and a variant with one more whitespace character in a
\* whitespace run, or before or after the text
NormWhitespace ==
    /\ ~fout.done
    /\ \E i \in 0..Len(fx), c \in {d \in NormAlphabet : IsSpace(d)} :
          /\ AtWhitespace(fx, i)
          /\ fy' = Insert(fx, i, c)
          /\ fout' = NormOut("whitespace", fx, Insert(fx, i, c), FALSE)
    /\ UNCHANGED fx
    /\ UNCHANGED engineVars

\* normalize x and a variant with one more punctuation character, anywhere
NormPunct ==
    /\ ~fout.done
    /\ \E i \in 0..Len(fx), c \in {d \in NormAlphabet : IsPunct(d)} :
          /\ fy' = Insert(fx, i, c)
          /\ fout' = NormOut("punct", fx, Insert(fx, i, c), InsideWord(fx, i))
    /\ UNCHANGED fx
    /\ UNCHANGED engineVars

NextNorm == NormCase \/ NormWhitespace \/ NormPunct

SpecNorm == InitNorm /\ [][NextNorm]_vars

-----------------------------------------------------------------------------
(* Connection: _connect and its strategies *)

\* connection_strategies, in list order
Strategies == <<"Custom SSL Context", "Legacy SSL Parameters",
                "Direct Connection String", "Legacy SSL", "Minimal Configuration">>

\* what one strategy meets: the MongoClient constructor raises, the
\* connection test raises, or the connection test passes
Outcomes == {"ctor_raise", "test_fail", "ok"}

\* the connection fields of the engine object
Conn == [client |-> client, db |-> db, collection |-> collection,
         connected |-> connected, established |-> established, tried |-> tried]

\* _test_connection on the client that strategy s has just created
TestConnection(st, s, outcome) ==
    IF outcome = "ok"
    THEN [st EXCEPT !.client = s, !.db = TRUE, !.collection = TRUE,
                    !.connected = TRUE, !.established = @ + 1]
    ELSE [st EXCEPT !.client = s, !.db = TRUE, !.collection = TRUE]

\* the loop over connection_strategies going on after a connection test passed
RECURSIVE TryFromAll(_, _, _)
TryFromAll(i, st, outc) ==
    IF i > Len(Strategies)
    THEN st
    ELSE LET s == Strategies[i]
             st1 == [st EXCEPT !.tried = Append(@, s)]
         IN  IF s = "Direct Connection String" /\ ~atlasHost
             THEN TryFromAll(i + 1, st1, outc)
             ELSE IF outc[s] = "ctor_raise"
             THEN TryFromAll(i + 1, st1, outc)
             ELSE TryFromAll(i + 1, TestConnection(st1, s, outc[s]), outc)

\* the loop over connection_strategies from the i-th on
RECURSIVE TryFrom(_, _, _)
TryFrom(i, st, outc) ==
    IF i > Len(Strategies)
    THEN [st EXCEPT !.connected = FALSE]
    ELSE LET s == Strategies[i]
             st1 == [st EXCEPT !.tried = Append(@, s)]
         IN  IF s = "Direct Connection String" /\ ~atlasHost
             THEN TryFrom(i + 1, st1, outc)
             ELSE IF outc[s] = "ctor_raise"
             THEN TryFrom(i + 1, st1, outc)
             ELSE LET st2 == TestConnection(st1, s, outc[s])
                  IN  IF st2.connected THEN st2 ELSE TryFrom(i + 1, st2, outc)

\* _connect without the early return of a connected engine
ConnectAlways(st, outc) ==
    IF ~uriSet THEN [st EXCEPT !.connected = FALSE, !.tried = <<>>]
    ELSE TryFrom(1, [st EXCEPT !.tried = <<>>], outc)

\* _connect
Connect(st, outc) ==
    IF st.connected THEN st
    ELSE IF ~uriSet THEN [st EXCEPT !.connected = FALSE, !.tried = <<>>]
    ELSE TryFrom(1, [st EXCEPT !.tried = <<>>], outc)

\* the caller's guard: if not self._connected: self._connect()
ConnectIfAbsent(st, outc) == IF ~st.connected THEN Connect(st, outc) ELSE st

SetConn(st) ==
    /\ client' = st.client
    /\ db' = st.db
    /\ collection' = st.collection
    /\ connected' = st.connected
    /\ established' = st.established
    /\ tried' = st.tried

-----------------------------------------------------------------------------
(* Corpus records and the candidate scan *)

\* the scan reads limit * 100 records, keeps limit * 2 candidates
ScanFactor == 100
KeepFactor == 2

UnknownTitle == <<"U","n","k","n","o","w","n">>

\* doc.get(field, default)
Get(doc, f, default) == IF f \in DOMAIN doc THEN doc[f] ELSE default

\* the scan reading the whole collection
ScanWindowWhole(store, limit) == store

\* collection.find({}).sort("_id", 1).limit(limit * 100)
ScanWindow(store, limit) == SubSeq(store, 1, Min(Len(store), limit * ScanFactor))

\* the retrieval accepting a line from half of the query words on
RetrieveFromHalf(query_lower, normalized_query, query_words, doc) ==
    LET text_lower == LowerStr(Get(doc, "text_lower", <<>>))
        normalized_text == NormalizeLowered(text_lower)
        word_matches == Cardinality({i \in DOMAIN query_words :
                                        IsSub(query_words[i], text_lower)})
        npos == Find(normalized_query, normalized_text)
        rpos == Find(query_lower, text_lower)
    IN  IF npos >= 0
        THEN \* position_score + completeness_score + 2.0
             LET L == Max(Len(normalized_text), 1)
             IN  [hit |-> TRUE, tier |-> "A",
                  score |-> <<3 * L - npos + Len(normalized_query), L>>]
        ELSE IF rpos >= 0
        THEN \* position_score + completeness_score + 1.5
             LET L == Max(Len(text_lower), 1)
             IN  [hit |-> TRUE, tier |-> "A-raw",
                  score |-> <<5 * L - 2 * rpos + 2 * Len(query_lower), 2 * L>>]
        ELSE IF Len(query_words) > 1 /\ 10 * word_matches >= 5 * Len(query_words)
        THEN [hit |-> TRUE, tier |-> "B", score |-> <<word_matches, Len(query_words)>>]
        ELSE [hit |-> FALSE, tier |-> "-", score |-> Zero]

\* the retrieval scoring the substring tiers without their bonus
RetrieveNoBonus(query_lower, normalized_query, query_words, doc) ==
    LET text_lower == LowerStr(Get(doc, "text_lower", <<>>))
        normalized_text == NormalizeLowered(text_lower)
        word_matches == Cardinality({i \in DOMAIN query_words :
                                        IsSub(query_words[i], text_lower)})
        npos == Find(normalized_query, normalized_text)
        rpos == Find(query_lower, text_lower)
    IN  IF npos >= 0
        THEN \* position_score + completeness_score
             LET L == Max(Len(normalized_text), 1)
             IN  [hit |-> TRUE, tier |-> "A",
                  score |-> <<L - npos + Len(normalized_query), L>>]
        ELSE IF rpos >= 0
        THEN \* position_score + completeness_score
             LET L == Max(Len(text_lower), 1)
             IN  [hit |-> TRUE, tier |-> "A-raw",
                  score |-> <<2 * L - 2 * rpos + 2 * Len(query_lower), 2 * L>>]
        ELSE IF Len(query_words) > 1 /\ 10 * word_matches >= 6 * Len(query_words)
        THEN [hit |-> TRUE, tier |-> "B", score |-> <<word_matches, Len(query_words)>>]
        ELSE [hit |-> FALSE, tier |-> "-", score |-> Zero]

\* the retrieval testing the normalized query against the text as stored
RetrieveTextAsStored(query_lower, normalized_query, query_words, doc) ==
    LET text_lower == LowerStr(Get(doc, "text_lower", <<>>))
        normalized_text == text_lower
        word_matches == Cardinality({i \in DOMAIN query_words :
                                        IsSub(query_words[i], text_lower)})
        npos == Find(normalized_query, normalized_text)
        rpos == Find(query_lower, text_lower)
    IN  IF npos >= 0
        THEN \* position_score + completeness_score + 2.0
             LET L == Max(Len(normalized_text), 1)
             IN  [hit |-> TRUE, tier |-> "A",
                  score |-> <<3 * L - npos + Len(normalized_query), L>>]
        ELSE IF rpos >= 0
        THEN \* position_score + completeness_score + 1.5
             LET L == Max(Len(text_lower), 1)
             IN  [hit |-> TRUE, tier |-> "A-raw",
                  score |-> <<5 * L - 2 * rpos + 2 * Len(query_lower), 2 * L>>]
        ELSE IF Len(query_words) > 1 /\ 10 * word_matches >= 6 * Len(query_words)
        THEN [hit |-> TRUE, tier |-> "B", score |-> <<word_matches, Len(query_words)>>]
        ELSE [hit |-> FALSE, tier |-> "-", score |-> Zero]

\* the retrieval score of one scanned record: [hit, tier, score];
\* normalized_query and query_words are those of query_lower
Retrieve(query_lower, normalized_query, query_words, doc) ==
    LET text_lower == LowerStr(Get(doc, "text_lower", <<>>))
        normalized_text == NormalizeLowered(text_lower)
        word_matches == Cardinality({i \in DOMAIN query_words :
                                        IsSub(query_words[i], text_lower)})
        npos == Find(normalized_query, normalized_text)
        rpos == Find(query_lower, text_lower)
    IN  IF npos >= 0
        THEN \* position_score + completeness_score + 2.0
             LET L == Max(Len(normalized_text), 1)
             IN  [hit |-> TRUE, tier |-> "A",
                  score |-> <<3 * L - npos + Len(normalized_query), L>>]
        ELSE IF rpos >= 0
        THEN \* position_score + completeness_score + 1.5
             LET L == Max(Len(text_lower), 1)
             IN  [hit |-> TRUE, tier |-> "A-raw",
                  score |-> <<5 * L - 2 * rpos + 2 * Len(query_lower), 2 * L>>]
        ELSE IF Len(query_words) > 1 /\ 10 * word_matches >= 6 * Len(query_words)
        THEN [hit |-> TRUE, tier |-> "B", score |-> <<word_matches, Len(query_words)>>]
        ELSE [hit |-> FALSE, tier |-> "-", score |-> Zero]

\* the scan loop: the hit records, each with its _match_score, in scan order
ScanLoop(query_lower, normalized_query, query_words, docs) ==
    LET scored == [i \in 1..Len(docs) |->
                      [doc |-> docs[i],
                       r |-> Retrieve(query_lower, normalized_query, query_words, docs[i])]]
        hits == SelectSeq(scored, LAMBDA c : c.r.hit)
    IN  [i \in 1..Len(hits) |->
            [doc |-> hits[i].doc, score |-> hits[i].r.score, tier |-> hits[i].r.tier]]

Candidates(query_lower, docs) ==
    ScanLoop(query_lower, NormalizeLowered(query_lower), Split(query_lower), docs)

\* x goes before the elements of equal score
RECURSIVE InsertBeforeEqual(_, _)
InsertBeforeEqual(acc, x) ==
    IF acc = <<>> THEN <<x>>
    ELSE IF FracLeq(Head(acc).score, x.score)
         THEN <<x>> \o acc
         ELSE <<Head(acc)>> \o InsertBeforeEqual(Tail(acc), x)

\* x goes behind every element that does not come after it (a stable sort)
RECURSIVE InsertByScore(_, _)
InsertByScore(acc, x) ==
    IF acc = <<>> THEN <<x>>
    ELSE IF FracLess(Head(acc).score, x.score)
         THEN <<x>> \o acc
         ELSE <<Head(acc)>> \o InsertByScore(Tail(acc), x)

\* results.sort(key=_match_score, reverse=True)
RECURSIVE SortByScore(_)
SortByScore(cands) ==
    IF cands = <<>> THEN <<>>
    ELSE InsertByScore(SortByScore(SubSeq(cands, 1, Len(cands) - 1)), cands[Len(cands)])

Take(seq, n) == SubSeq(seq, 1, Min(Len(seq), n))

\* Strategy 3 keeping every candidate
Strategy3KeepAll(store, query_lower, limit) ==
    LET sorted == SortByScore(Candidates(query_lower, ScanWindow(store, limit)))
    IN  [i \in 1..Len(sorted) |-> sorted[i].doc]

\* Strategy 3: scan, score, sort, keep limit * 2
Strategy3(store, query_lower, limit) ==
    LET sorted == SortByScore(Candidates(query_lower, ScanWindow(store, limit)))
        kept == Take(sorted, limit * KeepFactor)
    IN  [i \in 1..Len(kept) |-> kept[i].doc]

\* {"movie_title": {"$regex": query_lower, "$options": "i"}}
TitleMatches(query_lower, doc) ==
    /\ "movie_title" \in DOMAIN doc
    /\ IsSub(LowerStr(query_lower), LowerStr(doc["movie_title"]))

\* the records the title query matches, in _id order
Filter(query_lower, docs) == SelectSeq(docs, LAMBDA doc : TitleMatches(query_lower, doc))

\* the title query without its limit
Strategy4Unlimited(store, query_lower, limit) == Filter(query_lower, store)

\* Strategy 4: collection.find(title regex).limit(limit)
Strategy4(store, query_lower, limit) == Take(Filter(query_lower, store), limit)

-----------------------------------------------------------------------------
(* Result processing: deduplication, scoring, final order *)

\* the deduplication key of a record
MovieKey(doc) == <<Get(doc, "movie_title", <<>>), Get(doc, "year", "")>>

\* the result built from a record
MakeResult(query_lower, doc) ==
    [movie_title |-> Get(doc, "movie_title", UnknownTitle),
     year |-> Get(doc, "year", "Unknown"),
     subtitle_text |-> Get(doc, "subtitle_text", <<>>),
     match_score |-> CalculateMatchScore(query_lower, Get(doc, "text_lower", <<>>)),
     source |-> "mongodb",
     vote_count |-> Get(doc, "vote_count", 0)]

\* the loop over the candidates building each result from the last
\* candidate of its movie
RECURSIVE ProcessLastWins(_, _, _)
ProcessLastWins(query_lower, docs, seen_movies) ==
    IF docs = <<>> THEN <<>>
    ELSE LET movie_key == MovieKey(Head(docs))
         IN  IF /\ movie_key \notin seen_movies
                /\ movie_key # <<UnknownTitle, "Unknown">>
                /\ \A k \in 2..Len(docs) : MovieKey(docs[k]) # movie_key
             THEN <<MakeResult(query_lower, Head(docs))>>
                  \o ProcessLastWins(query_lower, Tail(docs), seen_movies \cup {movie_key})
             ELSE ProcessLastWins(query_lower, Tail(docs), seen_movies)

\* the loop over the candidates with the set seen_movies
RECURSIVE Process(_, _, _)
Process(query_lower, docs, seen_movies) ==
    IF docs = <<>> THEN <<>>
    ELSE LET movie_key == MovieKey(Head(docs))
         IN  IF movie_key \notin seen_movies /\ movie_key # <<UnknownTitle, "Unknown">>
             THEN <<MakeResult(query_lower, Head(docs))>>
                  \o Process(query_lower, Tail(docs), seen_movies \cup {movie_key})
             ELSE Process(query_lower, Tail(docs), seen_movies)

\* a sorts before b when only the match score is compared
ResultBeforeScoreOnly(a, b) == FracLess(b.match_score, a.match_score)

\* a sorts before b when the sort is not reversed
ResultBeforeAscending(a, b) ==
    \/ FracLess(a.match_score, b.match_score)
    \/ FracEq(a.match_score, b.match_score) /\ a.vote_count < b.vote_count

\* a sorts before b: the key (match_score, vote_count), descending
ResultBefore(a, b) ==
    \/ FracLess(b.match_score, a.match_score)
    \/ FracEq(a.match_score, b.match_score) /\ a.vote_count > b.vote_count

RECURSIVE InsertResult(_, _)
InsertResult(acc, x) ==
    IF acc = <<>> THEN <<x>>
    ELSE IF ResultBefore(x, Head(acc))
         THEN <<x>> \o acc
         ELSE <<Head(acc)>> \o InsertResult(Tail(acc), x)

\* processed_results.sort(key=(match_score, vote_count), reverse=True)
RECURSIVE SortResults(_)
SortResults(rs) ==
    IF rs = <<>> THEN <<>>
    ELSE InsertResult(SortResults(SubSeq(rs, 1, Len(rs) - 1)), rs[Len(rs)])

\* seen_movies at the start of a search, were it kept on the engine object
SeenOfLastSearch ==
    IF ret.op = "search"
    THEN {<<ret.value[i].movie_title, ret.value[i].year>> : i \in DOMAIN ret.value}
    ELSE {}

\* seen_movies = set()
SeenInit == {}

\* the except clause of search_subtitles re-raising
SearchErrorRaised == [kind |-> "raise", fault |-> "none", titleRan |-> FALSE, value |-> <<>>]

\* except Exception: log, return []
SearchError == [kind |-> "return", fault |-> "none", titleRan |-> FALSE, value |-> <<>>]

\* the body of search_subtitles on a connected engine; fault is the corpus
\* operation that fails during the call: "scan", "title" or "none"
SearchBody(store, query, limit, fault) ==
    LET query_lower == LowerStr(query)
    IN  IF fault = "scan" THEN [SearchError EXCEPT !.fault = "scan"]
        ELSE LET found == Strategy3(store, query_lower, limit)
                 titleRuns == found = <<>> /\ Len(Split(query_lower)) <= 3
                 results ==
                    IF titleRuns /\ fault # "title"
                    THEN Strategy4(store, query_lower, limit)
                    ELSE found
                 processed_results == Process(query_lower, results, SeenInit)
             IN  [kind |-> "return",
                  fault |-> IF titleRuns /\ fault = "title" THEN "title" ELSE "none",
                  titleRan |-> titleRuns,
                  value |-> Take(SortResults(processed_results), limit)]

-----------------------------------------------------------------------------
(* The engine: state after construction and its operations *)

TitleM == <<"M">>
TitleN == <<"N">>

\* the movie fields of stored records: two movies, a record imported with
\* the placeholder identity, a record without title, year and votes
MovieM == [movie_title |-> TitleM, year |-> "2010", vote_count |-> 1]
MovieN == [movie_title |-> TitleN, year |-> "2010", vote_count |-> 2]
MovieUnknown == [movie_title |-> UnknownTitle, year |-> "Unknown", vote_count |-> 0]
MovieAbsent == [imdb_id |-> "tt0"]

WithText(id, t) ==
    [f \in DOMAIN id \cup {"text_lower"} |-> IF f = "text_lower" THEN t ELSE id[f]]

\* the records a bounded corpus is made of
Docs ==
    { WithText(MovieM, <<"a", " ", "b">>),
      WithText(MovieM, <<"a", "!", "b">>),
      WithText(MovieN, <<"a", " ", "b">>),
      WithText(MovieN, <<"b", " ", "a", " ", "b">>),
      WithText(MovieUnknown, <<"a", " ", "b">>),
      WithText(MovieAbsent, <<"a", " ", "b">>) }

Queries == { <<"A", " ", "b">>, <<"b", " ", "a">>, <<"m">> }

\* a query the scan answers and one only the title query answers
QueryPair == { <<"A", " ", "b">>, <<"m">> }

Limits == 1..MaxLimit

Faults == {"none", "scan", "title"}

OutcomeVectors == [Range(Strategies) -> Outcomes]

\* every strategy meets the same outcome
UniformOutcomes == {[s \in Range(Strategies) |-> o] : o \in {"ok", "test_fail"}}

EngineConstructed ==
    /\ client = "None"
    /\ db = FALSE
    /\ collection = FALSE
    /\ connected = FALSE
    /\ established = 0
    /\ tried = <<>>
    /\ ret = [op |-> "none"]
    /\ probe = [set |-> FALSE]
    /\ route = [pc |-> "idle"]
    /\ fx = <<>>
    /\ fy = <<>>
    /\ fout = [done |-> FALSE]

\* the store had the scan written its _match_score back to the scanned records
StoreScoresWrittenBack(store, query, limit) ==
    [i \in 1..Len(store) |->
        IF i <= limit * ScanFactor /\ Candidates(LowerStr(query), <<store[i]>>) # <<>>
        THEN [f \in DOMAIN store[i] \cup {"_match_score"} |->
                 IF f = "_match_score"
                 THEN Candidates(LowerStr(query), <<store[i]>>)[1].score
                 ELSE store[i][f]]
        ELSE store[i]]

\* the store after a search: find() hands out copies, and the scan writes
\* _match_score into its copy only
StoreAfterSearch(store, query, limit) == store

\* the store after one call of search_subtitles that met fault
StoreAfterCall(st, store, query, limit, fault) ==
    IF st.connected /\ fault # "scan"
    THEN StoreAfterSearch(store, query, limit)
    ELSE store

\* the connection outcomes an operation can meet, out of M: none when it
\* does not connect
Meets(M) == IF connected THEN {[s \in Range(Strategies) |-> "ok"]} ELSE M

\* _connect(), called by a route
ConnectCall(M) ==
    /\ \E outc \in Meets(M) :
       \E st \in {Connect(Conn, outc)} :
          SetConn(st)
    /\ ret' = [op |-> "connect", already |-> connected]
    /\ UNCHANGED <<corpus, uriSet, atlasHost, probe, route, fx, fy, fout>>

\* get_database_info reporting "connected" although an operation failed
DatabaseInfoSwallowed(store, countFails, findFails) ==
    [status |-> "connected",
     total_documents |-> IF countFails THEN 0 ELSE Len(store)]

\* get_database_info taking a failed corpus operation for a lost connection
DatabaseInfoDisconnected(store, countFails, findFails) ==
    IF countFails \/ findFails THEN [status |-> "not_connected"]
    ELSE [status |-> "connected", total_documents |-> Len(store)]

\* the try block of get_database_info on a connected engine
DatabaseInfo(store, countFails, findFails) ==
    IF countFails THEN [status |-> "error", error |-> "count_documents failed"]
    ELSE IF findFails THEN [status |-> "error", error |-> "find_one failed"]
    ELSE [status |-> "connected", total_documents |-> Len(store)]

\* get_database_info()
GetDatabaseInfo(M) ==
    /\ \E outc \in Meets(M) :
       \E st \in {ConnectIfAbsent(Conn, outc)} :
          /\ SetConn(st)
          /\ IF ~st.connected
             THEN ret' = [op |-> "info", countFailed |-> FALSE,
                          findFailed |-> FALSE, info |-> [status |-> "not_connected"]]
             ELSE \E countFails \in BOOLEAN, findFails \in BOOLEAN :
                     ret' = [op |-> "info",
                             countFailed |-> countFails,
                             findFailed |-> ~countFails /\ findFails,
                             info |-> DatabaseInfo(corpus, countFails, findFails)]
    /\ UNCHANGED <<corpus, uriSet, atlasHost, probe, route, fx, fy, fout>>

\* what search_subtitles gives back: connect if absent, then the body
SearchOutcome(st, store, query, limit, fault) ==
    IF ~st.connected
    THEN [kind |-> "return", fault |-> "none", titleRan |-> FALSE, value |-> <<>>]
    ELSE SearchBody(store, query, limit, fault)

\* the corpus operations that can fail during a search with outcome out
FaultsOf(st, out) ==
    IF ~st.connected THEN {"none"}
    ELSE IF out.titleRan THEN Faults
    ELSE {"none", "scan"}

\* search_subtitles(query, limit), with queries out of Q; track: remember
\* the first search that reached the corpus
SearchSubtitles(M, Q, track) ==
    /\ \E query \in Q, limit \in Limits, outc \in Meets(M) :
       \E st \in {ConnectIfAbsent(Conn, outc)} :
       \E unfailed \in {SearchOutcome(st, corpus, query, limit, "none")} :
       \E fault \in FaultsOf(st, unfailed) :
       \E out \in {IF fault = "none" THEN unfailed
                   ELSE SearchOutcome(st, corpus, query, limit, fault)} :
       \E r \in {[op |-> "search", ran |-> st.connected,
                  query |-> query, limit |-> limit, fault |-> out.fault,
                  titleRan |-> out.titleRan,
                  kind |-> out.kind, value |-> out.value]} :
          /\ SetConn(st)
          /\ ret' = r
          /\ probe' = IF ~track \/ ~st.connected THEN probe
                      ELSE IF ~probe.set
                      THEN [set |-> TRUE, search |-> r, others |-> FALSE]
                      ELSE [probe EXCEPT !.others = @ \/ query # probe.search.query]
          /\ corpus' = StoreAfterCall(st, corpus, query, limit, fault)
    /\ UNCHANGED <<uriSet, atlasHost, route, fx, fy, fout>>

\* the searches of search_multiple_queries, one after the other: the
\* engine and the store after them, and all_results
RECURSIVE MultiLoop(_, _, _, _, _, _)
MultiLoop(st, store, queries, limit, outcs, faults) ==
    IF queries = <<>>
    THEN [st |-> st, store |-> store, all_results |-> <<>>]
    ELSE LET st1 == ConnectIfAbsent(st, Head(outcs))
             out == SearchOutcome(st1, store, Head(queries), limit, Head(faults))
             store1 == StoreAfterCall(st1, store, Head(queries), limit, Head(faults))
             rest == MultiLoop(st1, store1, Tail(queries), limit,
                               Tail(outcs), Tail(faults))
         IN  [rest EXCEPT !.all_results = out.value \o @]

\* the loop over all_results with the set seen
RECURSIVE Unique(_, _)
Unique(rs, seen) ==
    IF rs = <<>> THEN <<>>
    ELSE LET key == <<Head(rs).movie_title, Head(rs).year>>
         IN  IF key \notin seen /\ key # <<UnknownTitle, "Unknown">>
             THEN <<Head(rs)>> \o Unique(Tail(rs), seen \cup {key})
             ELSE Unique(Tail(rs), seen)

RECURSIVE InsertByMatchScore(_, _)
InsertByMatchScore(acc, x) ==
    IF acc = <<>> THEN <<x>>
    ELSE IF FracLess(Head(acc).match_score, x.match_score)
         THEN <<x>> \o acc
         ELSE <<Head(acc)>> \o InsertByMatchScore(Tail(acc), x)

\* unique_results.sort(key=match_score, reverse=True)
RECURSIVE SortByMatchScore(_)
SortByMatchScore(rs) ==
    IF rs = <<>> THEN <<>>
    ELSE InsertByMatchScore(SortByMatchScore(SubSeq(rs, 1, Len(rs) - 1)), rs[Len(rs)])

\* the corpus failures of n searches of which at most one fails, with a
\* failure out of F
FaultVectors(n, F) ==
    {[i \in 1..n |-> IF i = k THEN f ELSE "none"] : k \in 0..n, f \in F}

\* search_multiple_queries(queries, limit_per_query), with queries out of Q
\* and the corpus failure of a search out of F
SearchMultipleQueries(M, Q, F) ==
    /\ \E n \in 0..MaxQueries, limit_per_query \in Limits :
       \E queries \in [1..n -> Q], outcs \in [1..n -> Meets(M)],
          faults \in FaultVectors(n, F) :
       \E done \in {MultiLoop(Conn, corpus, queries, limit_per_query, outcs, faults)} :
          /\ SetConn(done.st)
          /\ corpus' = done.store
          /\ ret' = [op |-> "multi", count |-> n, limit |-> limit_per_query,
                     all_results |-> done.all_results,
                     value |-> SortByMatchScore(Unique(done.all_results, {}))]
    /\ UNCHANGED <<uriSet, atlasHost, probe, route, fx, fy, fout>>

-----------------------------------------------------------------------------
(* Spec: searches over every bounded corpus; the store answers the         *)
(* connection strategies uniformly                                         *)

Init ==
    /\ corpus \in UNION {[1..n -> Docs] : n \in 0..MaxDocs}
    /\ uriSet = TRUE
    /\ atlasHost = TRUE
    /\ EngineConstructed

Next ==
    \/ ConnectCall(UniformOutcomes)
    \/ GetDatabaseInfo(UniformOutcomes)
    \/ SearchSubtitles(UniformOutcomes, Queries, FALSE)

Spec == Init /\ [][Next]_vars

\* the (movie_title, year) pairs of a result list
Pairs(value) == [i \in DOMAIN value |-> <<value[i].movie_title, value[i].year>>]

\* C1 as stated: the list search_subtitles returns holds no two results with
\* the same (movie_title, year) and no result that is ("Unknown", "Unknown"),
\* records without movie_title or year included.
C1_Original ==
    ret.op = "search" =>
        /\ \A i, j \in DOMAIN ret.value :
              i # j => Pairs(ret.value)[i] # Pairs(ret.value)[j]
        /\ \A i \in DOMAIN ret.value :
              Pairs(ret.value)[i] # <<UnknownTitle, "Unknown">>

\* the candidates of the search in ret, as a search without failure finds them
NoCandidate ==
    /\ Strategy3(corpus, LowerStr(ret.query), ret.limit) = <<>>
    /\ Strategy4(corpus, LowerStr(ret.query), ret.limit) = <<>>

\* C2: search_subtitles always returns and never raises; it returns the empty
\* list when no connection is made, when the corpus is empty, when no
\* candidate matches and when the scan or the title query fails.
C2_SearchNeverRaises ==
    ret.op = "search" =>
        /\ ret.kind = "return"
        /\ ~ret.ran => ret.value = <<>>
        /\ ret.fault # "none" => ret.value = <<>>
        /\ corpus = <<>> => ret.value = <<>>
        /\ NoCandidate => ret.value = <<>>

\* a title query that failed after the scan had found nothing
C2_Witness ==
    /\ ret.op = "search"
    /\ ret.ran
    /\ ret.fault = "title"
    /\ corpus # <<>>
    /\ ret.kind = "return"
    /\ ret.value = <<>>

\* C3: the list search_subtitles returns is in descending order of
\* (match_score, vote_count), vote_count deciding between equal match
\* scores, and is no longer than limit.
C3_OrderedAndTruncated ==
    ret.op = "search" =>
        /\ Len(ret.value) <= ret.limit
        /\ \A i \in 1..(Len(ret.value) - 1) :
              \/ FracLess(ret.value[i + 1].match_score, ret.value[i].match_score)
              \/ /\ FracEq(ret.value[i + 1].match_score, ret.value[i].match_score)
                 /\ ret.value[i + 1].vote_count <= ret.value[i].vote_count

\* two results of equal match score, the one scanned later placed first
\* by its votes
C3_Witness ==
    /\ ret.op = "search"
    /\ Len(ret.value) = 2
    /\ Len(corpus) = 2
    /\ FracEq(ret.value[1].match_score, ret.value[2].match_score)
    /\ ret.value[1].vote_count > ret.value[2].vote_count
    /\ ret.value[1].movie_title = Get(corpus[2], "movie_title", <<>>)

\* C6: get_database_info answers "not_connected" exactly when no connection
\* is made, "connected" with the document count only when the count and the
\* sample read succeeded in that call, and "error" with a message whenever
\* one of them failed.
C6_InfoStatusAccurate ==
    ret.op = "info" =>
        /\ ret.info.status = "not_connected" <=> ~connected
        /\ ret.info.status = "connected" =>
              /\ ~ret.countFailed /\ ~ret.findFailed
              /\ ret.info.total_documents = Len(corpus)
        /\ (ret.countFailed \/ ret.findFailed) =>
              /\ ret.info.status = "error"
              /\ "error" \in DOMAIN ret.info

\* the count failed on an established connection and "error" was reported
C6_Witness ==
    /\ ret.op = "info"
    /\ connected
    /\ ret.countFailed
    /\ ret.info.status = "error"

-----------------------------------------------------------------------------
(* Corpora taken from the front of two fixed stores *)

Shelves ==
    { << WithText(MovieM, <<"a", " ", "b">>),
         WithText(MovieN, <<"a", " ", "b">>),
         WithText(MovieUnknown, <<"a", " ", "b">>),
         WithText(MovieM, <<"a", "!", "b">>) >>,
      << WithText(MovieN, <<"b", " ", "a", " ", "b">>),
         WithText(MovieAbsent, <<"a", " ", "b">>),
         WithText(MovieM, <<"a", "!", "b">>),
         WithText(MovieN, <<"a", " ", "b">>) >> }

ShelfCorpora == {Take(s, n) : s \in Shelves, n \in 0..MaxDocs}

\* a connected engine holds its three handles
HandlesSet == client # "None" /\ db /\ collection

\* what a connected engine reports when the corpus fails it
FailureReported ==
    /\ (ret.op = "search" /\ ret.fault # "none") => ret.value = <<>>
    /\ (ret.op = "info" /\ (ret.countFailed \/ ret.findFailed))
          => ret.info.status = "error"
    /\ ret.op = "info" => ret.info.status # "not_connected"

\* C27: a connected engine holds its client, database and collection
\* handles, no operation sets connected back to false, and a corpus that
\* fails after the connection is reported as the empty list by a search and
\* as "error" by get_database_info, never as "not_connected".
C27_ConnectedMonotone ==
    /\ [](connected => (HandlesSet /\ FailureReported))
    /\ [][connected => connected']_vars

\* get_database_info on a connected engine whose count_documents fails
C27_Witness ==
    /\ connected
    /\ HandlesSet
    /\ ret.op = "info"
    /\ ret.countFailed
    /\ ret.info.status = "error"

\* the normalized substring test of the scan accepts the record
NormalizedHit(query, doc) ==
    IsSub(Normalize(query), Normalize(Get(doc, "text_lower", <<>>)))

\* C18: the match_score of a returned result is computed on the normalized
\* query and the normalized line text: when the normalized substring test
\* accepts every line of the store, every result of a search carries a
\* containment score, one of at least 1.0.
C18_Original ==
    ( /\ ret.op = "search"
      /\ ret.ran
      /\ ret.fault = "none"
      /\ \A j \in DOMAIN corpus : NormalizedHit(ret.query, corpus[j]) )
    => \A i \in DOMAIN ret.value : FracLeq(One, ret.value[i].match_score)

-----------------------------------------------------------------------------
(* SpecConn: every operation that connects, with and without MONGO_URI and *)
(* an Atlas host; under _connect each strategy meets any outcome           *)

InitConn ==
    /\ corpus \in ShelfCorpora
    /\ uriSet \in BOOLEAN
    /\ atlasHost \in BOOLEAN
    /\ EngineConstructed

NextConn ==
    \/ ConnectCall(OutcomeVectors)
    \/ GetDatabaseInfo(UniformOutcomes)
    \/ SearchSubtitles(UniformOutcomes, Queries, FALSE)

SpecConn == InitConn /\ [][NextConn]_vars

\* C7: over any sequence of search_subtitles, get_database_info and
\* _connect calls on one engine, a connection is established at most once:
\* on a connected engine no call runs a connection strategy, creates a
\* client or drops the connection.
C7_ConnectsOnce ==
    [][ /\ established' <= 1
        /\ connected => /\ connected'
                        /\ client' = client
                        /\ established' = established
                        /\ tried' = tried ]_vars

\* _connect called on an engine that the fourth strategy had connected
C7_Witness ==
    /\ ret.op = "connect"
    /\ ret.already
    /\ connected
    /\ established = 1
    /\ client = "Legacy SSL"
    /\ Len(tried) = 4

\* C15: one connection attempt runs the strategies in list order, each at
\* most once, and stops at the first whose connection test passes; when all
\* fail the engine stays not connected, the search that attempted returns
\* the empty list and get_database_info reports "not_connected".
C15_AttemptInOrder ==
    /\ \E n \in 0..Len(Strategies) : tried = SubSeq(Strategies, 1, n)
    /\ established = (IF connected THEN 1 ELSE 0)
    /\ connected => /\ tried # <<>>
                    /\ client = tried[Len(tried)]
    /\ (~connected /\ uriSet /\ ret.op # "none") => tried = Strategies
    /\ (~connected /\ ret.op = "search") => /\ ~ret.ran
                                           /\ ret.kind = "return"
                                           /\ ret.value = <<>>
    /\ (~connected /\ ret.op = "info") => ret.info = [status |-> "not_connected"]

\* a search on a stocked store whose attempt ran all five strategies in vain
C15_Witness ==
    /\ ret.op = "search"
    /\ ~connected
    /\ uriSet
    /\ atlasHost
    /\ corpus # <<>>
    /\ tried = Strategies
    /\ ret.value = <<>>

-----------------------------------------------------------------------------
(* SpecFrame: all four operations against the store *)

NextFrame ==
    \/ ConnectCall(UniformOutcomes)
    \/ GetDatabaseInfo(UniformOutcomes)
    \/ SearchSubtitles(UniformOutcomes, Queries, FALSE)
    \/ SearchMultipleQueries(UniformOutcomes, QueryPair, {"scan"})

InitFrame ==
    /\ corpus \in ShelfCorpora
    /\ uriSet = TRUE
    /\ atlasHost = TRUE
    /\ EngineConstructed

SpecFrame == InitFrame /\ [][NextFrame]_vars

-----------------------------------------------------------------------------
(* SpecIndep: searches one after the other on one engine, the first one    *)
(* that reached the corpus remembered                                      *)

NextIndep ==
    \/ ConnectCall(UniformOutcomes)
    \/ SearchSubtitles(UniformOutcomes, Queries, TRUE)

SpecIndep == InitFrame /\ [][NextIndep]_vars

-----------------------------------------------------------------------------
(* SpecE2E: the query "we need to go deeper" against corpora holding that  *)
(* line of Inception and lines that compete with it                        *)

WeNeedToGoDeeper == <<"w", "e", " ", "n", "e", "e", "d", " ", "t", "o", " ", "g", "o", " ", "d", "e", "e", "p", "e", "r">>
WeNeedCommaToGoDeeper == <<"w", "e", " ", "n", "e", "e", "d", ",", " ", "t", "o", " ", "g", "o", " ", "d", "e", "e", "p", "e", "r">>
WeNeedToGo == <<"w", "e", " ", "n", "e", "e", "d", " ", "t", "o", " ", "g", "o">>
Inception == <<"I", "n", "c", "e", "p", "t", "i", "o", "n">>

MovieInception == [movie_title |-> Inception, year |-> "2010", vote_count |-> 1]

InceptionLine == WithText(MovieInception, WeNeedToGoDeeper)

\* the same line in a movie with more votes, another line of Inception, and
\* a line that holds four of the five words
E2EDocs ==
    { InceptionLine,
      WithText(MovieN, WeNeedToGoDeeper),
      WithText(MovieInception, WeNeedCommaToGoDeeper),
      WithText(MovieM, WeNeedToGo) }

InitE2E ==
    /\ corpus \in UNION {[1..n -> E2EDocs] : n \in 0..MaxDocs}
    /\ uriSet = TRUE
    /\ atlasHost = TRUE
    /\ EngineConstructed

NextE2E ==
    \/ ConnectCall(UniformOutcomes)
    \/ SearchSubtitles(UniformOutcomes, {WeNeedToGoDeeper}, FALSE)

SpecE2E == InitE2E /\ [][NextE2E]_vars

\* the search in ret ran to its end over a scan that read the Inception line
ScannedInceptionLine ==
    /\ ret.op = "search"
    /\ ret.ran
    /\ ret.fault = "none"
    /\ \E i \in DOMAIN ScanWindow(corpus, ret.limit) : corpus[i] = InceptionLine

\* the Inception line is the only scanned record that holds the phrase
OnlyInceptionHoldsPhrase ==
    \A i \in DOMAIN ScanWindow(corpus, ret.limit) :
        IsSub(Normalize(ret.query), Normalize(Get(corpus[i], "text_lower", <<>>)))
            => corpus[i] = InceptionLine

FirstIsInception ==
    /\ ret.value # <<>>
    /\ ret.value[1].movie_title = Inception
    /\ FracLeq(One, ret.value[1].match_score)

-----------------------------------------------------------------------------
(* Phrases: extract_phrases and get_best_phrases of SpeechToTextService *)

\* the characters word.strip('.,!?;:"()[]{}') removes from the ends of a word
EdgePunct == {".", ",", "!", "?", ";", ":", "\"", "(", ")", "[", "]", "{", "}"}

RECURSIVE LStripChars(_, _)
LStripChars(w, chars) ==
    IF w # <<>> /\ Head(w) \in chars THEN LStripChars(Tail(w), chars) ELSE w

RECURSIVE RStripChars(_, _)
RStripChars(w, chars) ==
    IF w # <<>> /\ w[Len(w)] \in chars
    THEN RStripChars(SubSeq(w, 1, Len(w) - 1), chars)
    ELSE w

\* word.strip(chars)
StripChars(w, chars) == RStripChars(LStripChars(w, chars), chars)

\* text.replace('\n', ' ')
ReplaceNewline(text) == [i \in 1..Len(text) |-> IF text[i] = "\n" THEN " " ELSE text[i]]

\* the words of the text: lowered, split, each stripped of edge punctuation;
\* the filter "if word.strip()" sees the word before its punctuation is
\* stripped, so it drops nothing that split() produced
CleanWords(text) ==
    LET words == Split(ReplaceNewline(LowerStr(text)))
        kept == SelectSeq(words, LAMBDA word : Strip(word) # <<>>)
    IN  [i \in 1..Len(kept) |-> StripChars(kept[i], EdgePunct)]

\* ' '.join(words)
RECURSIVE Join(_)
Join(words) ==
    IF words = <<>> THEN <<>>
    ELSE IF Len(words) = 1 THEN words[1]
    ELSE words[1] \o <<" ">> \o Join(Tail(words))

\* words[a:b] for 0 <= a, b
Slice(words, a, b) == SubSeq(words, a + 1, Min(b, Len(words)))

\* the phrases of range(len(words) - phrase_length + 1), in order
Windows(words, phrase_length) ==
    [k \in 1..Max(0, Len(words) - phrase_length + 1) |->
        Join(Slice(words, k - 1, k - 1 + phrase_length))]

\* the duplicate removal that keeps the first occurrence
RECURSIVE RemoveDuplicates(_, _)
RemoveDuplicates(phrases, seen) ==
    IF phrases = <<>> THEN <<>>
    ELSE IF Head(phrases) \notin seen
         THEN <<Head(phrases)>> \o RemoveDuplicates(Tail(phrases), seen \cup {Head(phrases)})
         ELSE RemoveDuplicates(Tail(phrases), seen)

\* extract_phrases({"text": text}, phrase_length)
ExtractPhrases(text, phrase_length) ==
    IF text = <<>> THEN <<>>
    ELSE RemoveDuplicates(Windows(CleanWords(text), phrase_length), {})

PhraseAlphabet == {"a", "B", " ", "!"}

PhraseLengths == 1..MaxPhraseLen

InitPhrase ==
    /\ EngineIdle
    /\ fx \in StrUpTo(PhraseAlphabet, MaxTextLen)
    /\ fy \in PhraseLengths
    /\ fout = [done |-> FALSE]

ExtractCall ==
    /\ ~fout.done
    /\ fout' = [done |-> TRUE, val |-> ExtractPhrases(fx, fy)]
    /\ UNCHANGED <<fx, fy>>
    /\ UNCHANGED engineVars

NextPhrase == ExtractCall

SpecPhrase == InitPhrase /\ [][NextPhrase]_vars

\* the cleaned tokens of a text: its lowered words with the punctuation at
\* their ends stripped, the words that this leaves empty dropped
CleanTokens(text) ==
    SelectSeq([i \in 1..Len(Split(LowerStr(text))) |->
                  StripChars(Split(LowerStr(text))[i], EdgePunct)],
              LAMBDA w : w # <<>>)

\* C11: extract_phrases returns, in window order, every window of exactly
\* phrase_length tokens of the cleaned token sequence, later duplicates
\* removed; there are max(0, token_count - phrase_length + 1) windows before
\* the removal.
C11_Original ==
    fout.done =>
        /\ \A i \in DOMAIN fout.val : Len(Split(fout.val[i])) = fy
        /\ fout.val = RemoveDuplicates(Windows(CleanTokens(fx), fy), {})
        /\ Len(Windows(CleanTokens(fx), fy)) = Max(0, Len(CleanTokens(fx)) - fy + 1)

\* the pieces of a phrase between its single spaces, as phrase.split(' ')
RECURSIVE Pieces(_, _)
Pieces(phrase, piece) ==
    IF phrase = <<>> THEN <<piece>>
    ELSE IF Head(phrase) = " "
         THEN <<piece>> \o Pieces(Tail(phrase), <<>>)
         ELSE Pieces(Tail(phrase), Append(piece, Head(phrase)))

\* C24: no token of a returned phrase is the empty string: every returned
\* phrase is made of exactly phrase_length non-empty tokens with single
\* spaces between them, also for texts with words of punctuation only.
C24_Original ==
    fout.done =>
        \A i \in DOMAIN fout.val :
            /\ Len(Pieces(fout.val[i], <<>>)) = fy
            /\ \A k \in DOMAIN Pieces(fout.val[i], <<>>) :
                  Pieces(fout.val[i], <<>>)[k] # <<>>

-----------------------------------------------------------------------------
(* SpecBest: get_best_phrases on every bounded phrase list and count *)

\* a sorts before b when the sort is not reversed
ShorterFirst(a, b) == a[1] < b[1]

\* a sorts before b: key x[0], reverse=True
LongerFirst(a, b) == a[1] > b[1]

RECURSIVE InsertScored(_, _)
InsertScored(acc, x) ==
    IF acc = <<>> THEN <<x>>
    ELSE IF LongerFirst(x, Head(acc))
         THEN <<x>> \o acc
         ELSE <<Head(acc)>> \o InsertScored(Tail(acc), x)

\* scored_phrases.sort(key=lambda x: x[0], reverse=True)
RECURSIVE SortScored(_)
SortScored(sp) ==
    IF sp = <<>> THEN <<>>
    ELSE InsertScored(SortScored(SubSeq(sp, 1, Len(sp) - 1)), sp[Len(sp)])

\* the loop that scores the phrases: (len(phrase), phrase), phrases
\* shorter than one character skipped
ScoredPhrases(phrases) ==
    LET kept == SelectSeq(phrases, LAMBDA phrase : ~(Len(phrase) < 1))
    IN  [i \in 1..Len(kept) |-> <<Len(kept[i]), kept[i]>>]

\* get_best_phrases(phrases, count), count >= 0
GetBestPhrases(phrases, count) ==
    IF phrases = <<>> THEN <<>>
    ELSE LET top == Take(SortScored(ScoredPhrases(phrases)), count)
         IN  [i \in 1..Len(top) |-> top[i][2]]

\* the phrases a list is made of: of 0, 1, 2 and 3 characters
PhrasePool == { <<>>, <<"a">>, <<"b">>, <<"a", "b">>, <<"a", " ", "b">> }

Counts == 0..MaxCount

InitBest ==
    /\ EngineIdle
    /\ fx \in StrUpTo(PhrasePool, MaxPhrases)
    /\ fy \in Counts
    /\ fout = [done |-> FALSE]

BestCall ==
    /\ ~fout.done
    /\ fout' = [done |-> TRUE, val |-> GetBestPhrases(fx, fy)]
    /\ UNCHANGED <<fx, fy>>
    /\ UNCHANGED engineVars

NextBest == BestCall

SpecBest == InitBest /\ [][NextBest]_vars

\* how often x occurs among the elements of seq at the indices in I
Occurrences(seq, I, x) == Cardinality({i \in I : seq[i] = x})

\* val is the phrases at the indices I, and no phrase of the indices J
\* outside I is longer than one of val
IsLongestOf(val, phrases, I, J) ==
    /\ I \subseteq J
    /\ Cardinality(I) = Len(val)
    /\ \A i \in DOMAIN val :
          Occurrences(val, DOMAIN val, val[i]) = Occurrences(phrases, I, val[i])
    /\ \A i \in I, j \in J \ I : Len(phrases[j]) <= Len(phrases[i])

Descending(val) == \A i, j \in DOMAIN val : i < j => Len(val[i]) >= Len(val[j])

\* C12 as stated: get_best_phrases returns the min(count, number of
\* phrases) longest phrases, in descending order of length; nothing for no
\* phrases, all of them when there are fewer than count.
C12_Original ==
    fout.done =>
        /\ Len(fout.val) = Min(fy, Len(fx))
        /\ Descending(fout.val)
        /\ \E I \in SUBSET DOMAIN fx : IsLongestOf(fout.val, fx, I, DOMAIN fx)

\* the indices of the phrases of at least one character
NonEmptyPhrases(phrases) == {i \in DOMAIN phrases : Len(phrases[i]) >= 1}

\* C12 amended: for count >= 0, get_best_phrases returns the min(count,
\* number of non-empty phrases) longest of the phrases that have at least
\* one character, in descending order of length; nothing for no phrases,
\* all non-empty ones when there are fewer than count.
C12_BestAreLongest ==
    fout.done =>
        /\ Len(fout.val) = Min(fy, Cardinality(NonEmptyPhrases(fx)))
        /\ Descending(fout.val)
        /\ \E I \in SUBSET NonEmptyPhrases(fx) :
              IsLongestOf(fout.val, fx, I, NonEmptyPhrases(fx))

\* two of three phrases chosen, the longest first, the order of the list
\* being another
C12_Witness ==
    /\ fout.done
    /\ fy = 2
    /\ fx = << <<"a">>, <<"a", " ", "b">>, <<"a", "b">> >>
    /\ fout.val = << <<"a", " ", "b">>, <<"a", "b">> >>

-----------------------------------------------------------------------------
(* The identify routes: one search per phrase, then the merge *)

\* limit=5 of the searches of a route, [:10] of its response
RouteLimit == 5
ResponseCap == 10

\* the loop "for result in results" with the set seen
RECURSIVE UniqueResults(_, _)
UniqueResults(results, seen) ==
    IF results = <<>> THEN <<>>
    ELSE LET key == <<Get(Head(results), "movie_title", <<>>),
                      Get(Head(results), "year", "")>>
         IN  IF key \notin seen /\ key # <<UnknownTitle, "Unknown">>
             THEN <<Head(results)>> \o UniqueResults(Tail(results), seen \cup {key})
             ELSE UniqueResults(Tail(results), seen)

\* the merge running as soon as one phrase has been searched
LoopOverAfterFirst(r) == r.next > 1

\* "for phrase in best_phrases" has run to its end
LoopOver(r) == r.next > Len(r.best_phrases)

\* a request arrives with its best_phrases, which are not empty
RouteStart(P) ==
    /\ route.pc = "idle"
    /\ \E n \in 1..MaxRoutePhrases :
       \E best_phrases \in [1..n -> P] :
          route' = [pc |-> "search", best_phrases |-> best_phrases, next |-> 1,
                    lists |-> <<>>, results |-> <<>>]
    /\ UNCHANGED <<corpus, uriSet, atlasHost, client, db, collection, connected,
                   established, tried, ret, probe, fx, fy, fout>>

\* subtitle_results = await search_subtitles(phrase, limit=5);
\* results.extend(subtitle_results)
RouteSearch(M) ==
    /\ route.pc = "search"
    /\ route.next <= Len(route.best_phrases)
    /\ \E outc \in Meets(M) :
       \E query \in {route.best_phrases[route.next]} :
       \E st \in {ConnectIfAbsent(Conn, outc)} :
       \E unfailed \in {SearchOutcome(st, corpus, query, RouteLimit, "none")} :
       \E fault \in FaultsOf(st, unfailed) :
       \E out \in {IF fault = "none" THEN unfailed
                   ELSE SearchOutcome(st, corpus, query, RouteLimit, fault)} :
          /\ SetConn(st)
          /\ corpus' = StoreAfterCall(st, corpus, query, RouteLimit, fault)
          /\ route' = [route EXCEPT !.next = @ + 1,
                                    !.lists = Append(@, out.value),
                                    !.results = @ \o out.value]
    /\ UNCHANGED <<uriSet, atlasHost, ret, probe, fx, fy, fout>>

\* the duplicate removal of the route, after the loop over the phrases
RouteMerge ==
    /\ route.pc = "search"
    /\ LoopOver(route)
    /\ route' = [pc |-> "done", best_phrases |-> route.best_phrases,
                 lists |-> route.lists, results |-> route.results,
                 unique_results |-> UniqueResults(route.results, {})]
    /\ UNCHANGED <<corpus, uriSet, atlasHost, client, db, collection, connected,
                   established, tried, ret, probe, fx, fy, fout>>

\* the response: movie_results, total_results
RouteReturn ==
    /\ route.pc = "done"
    /\ route' = [pc |-> "idle"]
    /\ ret' = [op |-> "route",
               movie_results |-> Take(route.unique_results, ResponseCap),
               total_results |-> Len(route.unique_results)]
    /\ UNCHANGED <<corpus, uriSet, atlasHost, client, db, collection, connected,
                   established, tried, probe, fx, fy, fout>>

-----------------------------------------------------------------------------
(* SpecMerge: requests of a route and calls of search_multiple_queries;    *)
(* no route calls search_multiple_queries, it is called between requests   *)

MultiBetweenRequests ==
    /\ route.pc = "idle"
    /\ SearchMultipleQueries(UniformOutcomes, QueryPair, {"scan"})

NextMerge ==
    \/ RouteStart(QueryPair)
    \/ RouteSearch(UniformOutcomes)
    \/ RouteMerge
    \/ RouteReturn
    \/ MultiBetweenRequests

\* a store in which a movie is found with two scores and a record without
\* title and year is found, and a store with one line per movie
MergeCorpora ==
    { << WithText(MovieM, <<"a", " ", "b">>), WithText(MovieAbsent, <<"a", " ", "b">>) >>,
      << WithText(MovieN, <<"b", " ", "a", " ", "b">>), WithText(MovieM, <<"a", "!", "b">>) >> }

InitMerge ==
    /\ corpus \in MergeCorpora
    /\ uriSet = TRUE
    /\ atlasHost = TRUE
    /\ EngineConstructed

SpecMerge == InitMerge /\ [][NextMerge]_vars

RECURSIVE Concat(_)
Concat(lists) == IF lists = <<>> THEN <<>> ELSE Head(lists) \o Concat(Tail(lists))

KeyOf(result) == <<result.movie_title, result.year>>

\* merged holds, for every key of all other than ("Unknown", "Unknown"),
\* the first result of all with that key and nothing else
IsMergeOf(all, merged) ==
    /\ \A i \in DOMAIN merged :
          /\ KeyOf(merged[i]) # <<UnknownTitle, "Unknown">>
          /\ \E j \in DOMAIN all :
                /\ all[j] = merged[i]
                /\ \A k \in 1..(j - 1) : KeyOf(all[k]) # KeyOf(merged[i])
    /\ \A j \in DOMAIN all :
          KeyOf(all[j]) # <<UnknownTitle, "Unknown">> =>
              Cardinality({i \in DOMAIN merged : KeyOf(merged[i]) = KeyOf(all[j])}) = 1

\* C13: the merge of a route and of search_multiple_queries starts after the
\* search of every phrase has returned; the merged list holds, for every
\* (movie_title, year) of the concatenated lists, the first result with it,
\* match_score unchanged, and no result of ("Unknown", "Unknown").
C13_MergeAfterAllSearches ==
    /\ route.pc = "done" =>
          /\ Len(route.lists) = Len(route.best_phrases)
          /\ route.results = Concat(route.lists)
          /\ IsMergeOf(Concat(route.lists), route.unique_results)
    /\ ret.op = "multi" => IsMergeOf(ret.all_results, ret.value)

\* a merge over two lists that hold the same movie with different scores
\* and a result of ("Unknown", "Unknown")
C13_Witness ==
    /\ route.pc = "done"
    /\ Len(route.lists) = 2
    /\ \E i, j \in DOMAIN route.results :
          /\ i < j
          /\ KeyOf(route.results[i]) = KeyOf(route.results[j])
          /\ route.results[i].match_score # route.results[j].match_score
          /\ route.results[i] \in Range(route.unique_results)
    /\ \E i \in DOMAIN route.results :
          KeyOf(route.results[i]) = <<UnknownTitle, "Unknown">>

-----------------------------------------------------------------------------
(* SpecText: requests of identify_movie_from_text, from the text on *)

\* extract_phrases(..., phrase_length=5), get_best_phrases(..., count=3)
RoutePhraseLength == 5
RouteCount == 3

\* a request arrives with its text; without a best phrase it raises
\* HTTPException(400) before any search
TextRequest(T) ==
    /\ route.pc = "idle"
    /\ \E text \in T :
       \E best_phrases \in {GetBestPhrases(ExtractPhrases(text, RoutePhraseLength),
                                           RouteCount)} :
          route' = IF best_phrases = <<>>
                   THEN [pc |-> "raised", text |-> text, status_code |-> 400,
                         detail |-> "No meaningful phrases found in text"]
                   ELSE [pc |-> "search", text |-> text,
                         best_phrases |-> best_phrases, next |-> 1,
                         lists |-> <<>>, results |-> <<>>]
    /\ UNCHANGED <<corpus, uriSet, atlasHost, client, db, collection, connected,
                   established, tried, ret, probe, fx, fy, fout>>

\* except HTTPException: raise
RouteRaise ==
    /\ route.pc = "raised"
    /\ route' = [pc |-> "idle"]
    /\ ret' = [op |-> "route_error", status_code |-> route.status_code,
               detail |-> route.detail]
    /\ UNCHANGED <<corpus, uriSet, atlasHost, client, db, collection, connected,
                   established, tried, probe, fx, fy, fout>>

\* texts of four, five and eight words, and texts of four words and a
\* word of punctuation only
TextPool ==
    { <<"a", " ", "b", " ", "c", " ", "d">>,
      <<"a", " ", "b", " ", "c", " ", "d", " ", "e">>,
      <<"a", " ", "b", " ", "c", " ", "d", " ", "e", " ", "f", " ", "g", " ", "h">>,
      <<"a", " ", "b", " ", "c", " ", "d", " ", "!">>,
      <<".", ".", ".", " ", "a", " ", "b", " ", "c", " ", "d">> }

\* a store holding a phrase of the texts, and a store of two movies
TextCorpora ==
    { << WithText(MovieM, <<"a", " ", "b", " ", "c", " ", "d", " ", "e">>) >>,
      << WithText(MovieN, <<"b", " ", "c", " ", "d", " ", "e", " ", "f">>),
         WithText(MovieM, <<"a", " ", "b", " ", "c", " ", "d">>) >> }

InitText ==
    /\ corpus \in TextCorpora
    /\ uriSet = TRUE
    /\ atlasHost = TRUE
    /\ EngineConstructed

NextText ==
    \/ TextRequest(TextPool)
    \/ RouteSearch(UniformOutcomes)
    \/ RouteMerge
    \/ RouteReturn
    \/ RouteRaise

SpecText == InitText /\ [][NextText]_vars

\* C30: a text with fewer than 5 cleaned tokens yields no phrase and the
\* request ends with HTTP 400 before any search; the 400 is passed on as it
\* is; a text with at least 5 tokens has at most 3 searches, one per
\* selected phrase.
C30_Original ==
    /\ ("text" \in DOMAIN route /\ Len(CleanTokens(route.text)) < RoutePhraseLength)
          => (route.pc = "raised" /\ route.status_code = 400)
    /\ ("text" \in DOMAIN route /\ Len(CleanTokens(route.text)) >= RoutePhraseLength)
          => /\ route.pc = "search"
             /\ Len(route.best_phrases) \in 1..RouteCount
             /\ Len(route.lists) = route.next - 1
             /\ route.next <= Len(route.best_phrases) + 1
    /\ ret.op = "route_error" => ret.status_code = 400

-----------------------------------------------------------------------------
(* SpecScan: the scan of search_subtitles over bounded stores of lines *)

\* queries of one, two, three and five tokens, and one of punctuation only
ScanQueries ==
    { <<"a">>, <<"!">>, <<"a", " ", "b">>, <<"a", " ", "c">>, <<"a", " ", "b", " ", "c">>,
      <<"a", " ", "c", " ", "c">>, <<"a", " ", "b", " ", "d", " ", "d", " ", "d">>, <<"a", " ", "b", " ", "c", " ", "d", " ", "d">> }

ScanLines ==
    { <<"a", " ", "b">>, <<"b", " ", "a">>, <<"a", "!", "b">>, <<"c", " ", "b", " ", "a">>, <<>>,
      <<"c", " ", "c", " ", "a", " ", "b">> }

InitScan ==
    /\ EngineIdle
    /\ fx \in ScanQueries
    /\ fy \in UNION {[1..n -> {WithText(MovieM, t) : t \in ScanLines}] : n \in 1..MaxLines}
    /\ fout = [done |-> FALSE]

\* the scan of one search over the store fy, and the candidates it keeps
ScanCall ==
    /\ ~fout.done
    /\ \E limit \in Limits :
          fout' = [done |-> TRUE, limit |-> limit,
                   scanned |-> Candidates(LowerStr(fx), ScanWindow(fy, limit)),
                   kept |-> Strategy3(fy, LowerStr(fx), limit)]
    /\ UNCHANGED <<fx, fy>>
    /\ UNCHANGED engineVars

NextScan == ScanCall

SpecScan == InitScan /\ [][NextScan]_vars

\* the line is a Tier A hit: a substring hit after normalization or raw
TierAHit(query, doc) ==
    \/ IsSub(Normalize(query), Normalize(doc.text_lower))
    \/ IsSub(LowerStr(query), LowerStr(doc.text_lower))

\* the number of query tokens that occur in the line's lowercase text
TokenOverlap(query, doc) ==
    Cardinality({i \in DOMAIN Split(LowerStr(query)) :
                    IsSub(Split(LowerStr(query))[i], LowerStr(doc.text_lower))})

TokenCount(query) == Len(Split(LowerStr(query)))

\* the scan made the line a Tier B candidate with the given score
IsTierB(doc, score) ==
    \E k \in DOMAIN fout.scanned :
        /\ fout.scanned[k].doc = doc
        /\ fout.scanned[k].tier = "B"
        /\ fout.scanned[k].score = score

HasTierB(doc) == \E k \in DOMAIN fout.scanned :
                    fout.scanned[k].doc = doc /\ fout.scanned[k].tier = "B"

\* C14: for a query of more than one token, a scanned line that is no Tier A
\* hit is a Tier B candidate exactly when at least 60% of the query tokens
\* occur in its lowercase text, scored with that fraction; a one-token query
\* has no Tier B candidate; a store without a line containing the query but
\* with a line of at least 60% overlap yields a candidate.
C14_TierBFromSixtyPercent ==
    fout.done =>
        /\ \A i \in DOMAIN fy :
              ~TierAHit(fx, fy[i]) =>
                 /\ HasTierB(fy[i]) <=>
                       /\ TokenCount(fx) > 1
                       /\ 10 * TokenOverlap(fx, fy[i]) >= 6 * TokenCount(fx)
                 /\ HasTierB(fy[i]) =>
                       IsTierB(fy[i], <<TokenOverlap(fx, fy[i]), TokenCount(fx)>>)
        /\ TokenCount(fx) <= 1 =>
              \A k \in DOMAIN fout.scanned : fout.scanned[k].tier # "B"
        /\ ( /\ TokenCount(fx) > 1
             /\ \A i \in DOMAIN fy : ~TierAHit(fx, fy[i])
             /\ \E i \in DOMAIN fy : 10 * TokenOverlap(fx, fy[i]) >= 6 * TokenCount(fx) )
           => fout.kept # <<>>

\* three of five tokens, exactly 60%, make the only candidate of a store
\* whose other line holds two of the five
C14_Witness ==
    /\ fout.done
    /\ TokenCount(fx) = 5
    /\ Len(fy) = 2
    /\ TokenOverlap(fx, fy[1]) = 2
    /\ TokenOverlap(fx, fy[2]) = 3
    /\ Len(fout.scanned) = 1
    /\ fout.scanned[1].tier = "B"
    /\ fout.scanned[1].score = <<3, 5>>
    /\ fout.kept = <<fy[2]>>

\* the tiers of the candidates one scan collected
TiersScanned == {fout.scanned[k].tier : k \in DOMAIN fout.scanned}

\* C19: the candidates of one search never hold both a Tier A hit and a
\* Tier B hit: word-overlap candidates are collected only when the substring
\* tier produced none.
C19_Original ==
    fout.done => ~( /\ TiersScanned \cap {"A", "A-raw"} # {}
                    /\ "B" \in TiersScanned )

\* C21: within one search every Tier A hit, normalized or raw, has a
\* retrieval score strictly greater than every Tier B hit, so in the sorted
\* candidates every Tier A hit precedes every Tier B hit.
C21_TierAOutranksTierB ==
    fout.done =>
        /\ \A a, b \in DOMAIN fout.scanned :
              (fout.scanned[a].tier \in {"A", "A-raw"} /\ fout.scanned[b].tier = "B")
                 => FracLess(fout.scanned[b].score, fout.scanned[a].score)
        /\ \A i, j \in DOMAIN fout.kept :
              (TierAHit(fx, fout.kept[i]) /\ ~TierAHit(fx, fout.kept[j])) => i < j

\* a substring hit that starts behind more characters than the query has,
\* scanned after a line holding every query word
C21_Witness ==
    /\ fout.done
    /\ Len(fout.scanned) = 2
    /\ fout.scanned[1].tier = "B"
    /\ fout.scanned[1].score = <<2, 2>>
    /\ fout.scanned[2].tier = "A"
    /\ Find(Normalize(fx), Normalize(fout.scanned[2].doc.text_lower)) > Len(Normalize(fx))
    /\ fout.kept = <<fout.scanned[2].doc, fout.scanned[1].doc>>

\* the place of the i-th scanned candidate in the order by descending
\* retrieval score, equal scores in scan order
RankOf(i) ==
    1 + Cardinality({j \in DOMAIN fout.scanned :
                        \/ FracLess(fout.scanned[i].score, fout.scanned[j].score)
                        \/ /\ FracEq(fout.scanned[i].score, fout.scanned[j].score)
                           /\ j < i})

\* C22: the candidates are ordered by retrieval score descending, equal
\* scores in scan order, and cut to at most 2 x limit entries.
C22_StableOrderAndCut ==
    fout.done =>
        /\ Len(fout.kept) = Min(Len(fout.scanned), 2 * fout.limit)
        /\ \A i \in DOMAIN fout.scanned :
              RankOf(i) <= 2 * fout.limit => fout.kept[RankOf(i)] = fout.scanned[i].doc

\* three candidates, the later two of equal score and different text, the
\* first of lower score: the cut at 2 x limit drops the first
C22_Witness ==
    /\ fout.done
    /\ fout.limit = 1
    /\ Len(fout.scanned) = 3
    /\ FracLess(fout.scanned[1].score, fout.scanned[2].score)
    /\ FracEq(fout.scanned[2].score, fout.scanned[3].score)
    /\ fout.scanned[2].doc # fout.scanned[3].doc
    /\ fout.kept = <<fout.scanned[2].doc, fout.scanned[3].doc>>

\* C23: a query that normalizes to the empty string has no candidate of the
\* substring and word-overlap tiers, whatever the store.
C23_Original ==
    (fout.done /\ Normalize(fx) = <<>>) => fout.scanned = <<>>

-----------------------------------------------------------------------------
(* SpecRaw: the tier of one line under one query, over every bounded *)
(* query and text with letters of both cases, spaces and punctuation *)

RawAlphabet == {"a", "B", " ", "!"}

InitRaw ==
    /\ EngineIdle
    /\ fx \in StrUpTo(RawAlphabet, MaxRawQLen)
    /\ fy \in StrUpTo(RawAlphabet, MaxRawLen)
    /\ fout = [done |-> FALSE]

\* one pass of the scan loop over a record with text fy
RawCall ==
    /\ ~fout.done
    /\ \E r \in {Retrieve(LowerStr(fx), NormalizeLowered(LowerStr(fx)),
                          Split(LowerStr(fx)), [text_lower |-> fy])} :
          fout' = [done |-> TRUE, hit |-> r.hit, tier |-> r.tier, score |-> r.score]
    /\ UNCHANGED <<fx, fy>>
    /\ UNCHANGED engineVars

NextRaw == RawCall

SpecRaw == InitRaw /\ [][NextRaw]_vars

\* C25: when the lowercase query is a substring of the line's lowercase text,
\* the normalized query is a substring of the normalized text; the raw
\* branch of the scan is never taken and no candidate gets the bonus 1.5.
C25_RawBranchDead ==
    fout.done =>
        /\ IsSub(LowerStr(fx), LowerStr(fy)) => IsSub(Normalize(fx), Normalize(fy))
        /\ fout.tier # "A-raw"

\* a query with punctuation found as it stands in the text
C25_Witness ==
    /\ fout.done
    /\ "!" \in Range(fx)
    /\ Normalize(fx) # <<>>
    /\ IsSub(LowerStr(fx), LowerStr(fy))
    /\ fout.tier = "A"

-----------------------------------------------------------------------------
(* SpecCut: searches over stores with more candidates than the cut keeps *)
(* and with several lines per movie                                       *)

\* two lines of movie M with their subtitle_text, a line of movie N holding
\* the query behind other words, a record imported with the placeholder
\* identity, a record without title and year
CutDocs ==
    { [movie_title |-> TitleM, year |-> "2010", vote_count |-> 1,
       text_lower |-> <<"a", " ", "b">>, subtitle_text |-> <<"A", " ", "b">>],
      [movie_title |-> TitleM, year |-> "2010", vote_count |-> 1,
       text_lower |-> <<"a", "!", "b">>, subtitle_text |-> <<"a", "!", "b">>],
      WithText(MovieN, <<"b", " ", "a", " ", "b">>),
      WithText(MovieUnknown, <<"a", " ", "b">>),
      WithText(MovieAbsent, <<"a", "!", "b">>) }

InitCut ==
    /\ corpus \in UNION {[1..n -> CutDocs] : n \in 0..MaxCutDocs}
    /\ uriSet = TRUE
    /\ atlasHost = TRUE
    /\ EngineConstructed

NextCut == SearchSubtitles(UniformOutcomes, QueryPair, FALSE)

SpecCut == InitCut /\ [][NextCut]_vars

\* the candidates of the last search in retrieval order, as the
\* deduplication receives them
CandidatesOfLastSearch ==
    IF ret.titleRan
    THEN Strategy4(corpus, LowerStr(ret.query), ret.limit)
    ELSE Strategy3(corpus, LowerStr(ret.query), ret.limit)

\* the last call was a search that reached the corpus and met no failure
SearchedUnfailed == ret.op = "search" /\ ret.ran /\ ret.fault = "none"

\* the (movie_title, year) a result of the record shows
ShownKey(doc) == <<Get(doc, "movie_title", UnknownTitle), Get(doc, "year", "Unknown")>>

\* the first candidate showing the key
FirstShowing(key) ==
    CHOOSE j \in DOMAIN CandidatesOfLastSearch :
        /\ ShownKey(CandidatesOfLastSearch[j]) = key
        /\ \A k \in 1..(j - 1) : ShownKey(CandidatesOfLastSearch[k]) # key

KeysOfCandidates ==
    {MovieKey(CandidatesOfLastSearch[j]) : j \in DOMAIN CandidatesOfLastSearch}
        \ {<<UnknownTitle, "Unknown">>}

\* every hit of the scan of the last search, cut or not
HitsOfLastSearch == Candidates(LowerStr(ret.query), ScanWindow(corpus, ret.limit))

\* C29: a search returns min(limit, number of distinct deduplication keys
\* other than ("Unknown", "Unknown") among the first 2 x limit candidates)
\* results; a movie whose candidates all rank behind is not returned.
C29_CountOfResults ==
    SearchedUnfailed =>
        /\ Len(CandidatesOfLastSearch) <= 2 * ret.limit
        /\ Len(ret.value) = Min(ret.limit, Cardinality(KeysOfCandidates))
        /\ \A i \in DOMAIN ret.value :
              \E j \in DOMAIN CandidatesOfLastSearch :
                  KeyOf(ret.value[i]) = ShownKey(CandidatesOfLastSearch[j])

\* three hits, the first two with the excluded key: the movie of the third
\* is not returned, and nothing is
C29_Witness ==
    /\ SearchedUnfailed
    /\ ~ret.titleRan
    /\ ret.limit = 1
    /\ Len(HitsOfLastSearch) = 3
    /\ MovieKey(CandidatesOfLastSearch[1]) = <<UnknownTitle, "Unknown">>
    /\ MovieKey(CandidatesOfLastSearch[2]) = <<UnknownTitle, "Unknown">>
    /\ MovieKey(corpus[3]) = <<TitleM, "2010">>
    /\ ret.value = <<>>

-----------------------------------------------------------------------------
(* SpecWindow: searches over stores that reach beyond the scan window *)

\* a record no query finds, a record whose title holds the query "a b", and
\* a record whose text is that query
Filler == WithText(MovieN, <<"x">>)
TitledAB == [movie_title |-> <<"a", " ", "b">>, year |-> "2012", vote_count |-> 3,
             text_lower |-> <<"x">>]
LineAB == WithText(MovieM, <<"a", " ", "b">>)

\* n records that no query finds
Pad(n) == [i \in 1..n |-> Filler]

\* the last record is the last of the window of a limit, or the first
\* behind it
WindowCorpora ==
    { <<first>> \o Pad(n - 2) \o <<last>> :
         first \in {Filler, TitledAB},
         last \in {Filler, LineAB},
         n \in UNION {{k * ScanFactor, k * ScanFactor + 1} : k \in 1..MaxLimit} }

InitWindow ==
    /\ corpus \in WindowCorpora
    /\ uriSet = TRUE
    /\ atlasHost = TRUE
    /\ EngineConstructed

NextWindow == SearchSubtitles(UniformOutcomes, QueryPair, FALSE)

SpecWindow == InitWindow /\ [][NextWindow]_vars

\* the j-th record is among the first 100 x limit
InWindow(j, limit) == j <= 100 * limit

\* the substring tier or the word-overlap tier accepts the record
TierHit(query, doc) ==
    \/ TierAHit(query, doc)
    \/ /\ TokenCount(query) > 1
       /\ 10 * TokenOverlap(query, doc) >= 6 * TokenCount(query)

\* C28: only the first 100 x limit records, in _id order, are examined by the
\* substring and word-overlap tiers: a record behind them is no candidate
\* even when its text is the query, so the candidates, and whether the title
\* query runs, depend on limit.
C28_ScanWindow ==
    SearchedUnfailed =>
        /\ ret.titleRan <=>
              /\ TokenCount(ret.query) <= 3
              /\ \A j \in DOMAIN corpus :
                    InWindow(j, ret.limit) => ~TierHit(ret.query, corpus[j])
        /\ ~ret.titleRan =>
              \A i \in DOMAIN ret.value :
                  \E j \in DOMAIN corpus :
                      /\ InWindow(j, ret.limit)
                      /\ TierHit(ret.query, corpus[j])
                      /\ KeyOf(ret.value[i]) = ShownKey(corpus[j])

\* limit 1 and the query's own line as record 101: the title query runs
\* and the movie found by title is returned, the movie of the line is not
C28_Witness ==
    /\ SearchedUnfailed
    /\ ret.limit = 1
    /\ Len(corpus) = 101
    /\ corpus[101].text_lower = LowerStr(ret.query)
    /\ corpus[1] = TitledAB
    /\ ret.titleRan
    /\ Len(ret.value) = 1
    /\ ret.value[1].year = "2012"

-----------------------------------------------------------------------------
(* SpecTitle: searches with queries of two, three and four tokens over *)
(* records whose titles hold them                                       *)

TitleThree == <<"m", " ", "m", " ", "m">>
TitleFour == <<"m", " ", "m", " ", "m", " ", "m">>

MovieThree == [movie_title |-> TitleThree, year |-> "2010", vote_count |-> 1]
MovieFour == [movie_title |-> TitleFour, year |-> "2011", vote_count |-> 2]

\* two records found by title only, and one found by the scan
TitleDocs ==
    { WithText(MovieThree, <<"x">>),
      WithText(MovieFour, <<"x">>),
      WithText(MovieN, <<"m">>) }

TitleQueries == { <<"M", " ", "m">>, <<"m", " ", "m", " ", "m">>, <<"m", " ", "m", " ", "m", " ", "m">> }

InitTitle ==
    /\ corpus \in UNION {[1..n -> TitleDocs] : n \in 0..MaxTitleDocs}
    /\ uriSet = TRUE
    /\ atlasHost = TRUE
    /\ EngineConstructed

NextTitle == SearchSubtitles(UniformOutcomes, TitleQueries, FALSE)

SpecTitle == InitTitle /\ [][NextTitle]_vars

\* neither the substring tier nor the word-overlap tier accepts a scanned line
NoScanCandidate(query, store, limit) ==
    \A j \in 1..Min(Len(store), limit * ScanFactor) :
        /\ ~TierAHit(query, store[j])
        /\ ~( /\ TokenCount(query) > 1
              /\ 10 * TokenOverlap(query, store[j]) >= 6 * TokenCount(query) )

\* the title of the record holds the query, letter case ignored
TitleHolds(query, doc) == IsSub(LowerStr(query), LowerStr(doc.movie_title))

\* the record is among the first limit records whose title holds the query
AmongFirstByTitle(query, store, j, limit) ==
    /\ TitleHolds(query, store[j])
    /\ Cardinality({k \in 1..(j - 1) : TitleHolds(query, store[k])}) < limit

\* C20: the title query runs exactly when the scan left no candidate and the
\* query has at most 3 tokens; it contributes the first limit records whose
\* title holds the query and no more; a query of 4 or more tokens without a
\* scan candidate returns the empty list.
C20_TitleFallback ==
    (ret.op = "search" /\ ret.ran /\ ret.fault # "scan") =>
        /\ ret.titleRan <=> ( /\ NoScanCandidate(ret.query, corpus, ret.limit)
                              /\ TokenCount(ret.query) <= 3 )
        /\ ret.titleRan =>
              /\ Len(ret.value) <= ret.limit
              /\ \A i \in DOMAIN ret.value :
                    \E j \in DOMAIN corpus :
                        /\ AmongFirstByTitle(ret.query, corpus, j, ret.limit)
                        /\ KeyOf(ret.value[i]) = <<corpus[j].movie_title, corpus[j].year>>
        /\ ( /\ TokenCount(ret.query) >= 4
             /\ NoScanCandidate(ret.query, corpus, ret.limit) )
           => ret.value = <<>>

\* a query of three tokens and limit 1 against two records found by title
\* only: the first is returned although the second has more votes
C20_Witness ==
    /\ ret.op = "search"
    /\ ret.ran
    /\ ret.fault = "none"
    /\ ret.titleRan
    /\ ret.limit = 1
    /\ TokenCount(ret.query) = 3
    /\ Len(corpus) = 2
    /\ corpus[1].movie_title = TitleThree
    /\ corpus[2].movie_title = TitleFour
    /\ Len(ret.value) = 1
    /\ ret.value[1].movie_title = TitleThree

=============================================================================
